---- MODULE Spec2Model ----
(***************************************************************************)
(* Model of src/app.py: a Streamlit page that keeps a chat transcript in   *)
(* st.session_state, validates the run configuration on every submitted    *)
(* question, builds a LangChain ReAct agent and records its answer (or a   *)
(* fixed fallback text) in the transcript.                                 *)
(*                                                                         *)
(* One script run of app.py is one action when it does not reach           *)
(* search_agent.run (Rerun, SubmitBlocked, SubmitSetupFails).  A run that  *)
(* reaches search_agent.run is SubmitStart followed by the steps of the    *)
(* reasoning loop; the step that leaves the loop also executes the rest of *)
(* the script (lines 158-172).  The loop itself lives in the agent library *)
(* and is modelled from section 4.1 of the specification.                  *)
(***************************************************************************)
EXTENDS Integers, Sequences, FiniteSets, TLC

\* ---------------------------------------------------------------- bounds
MaxSubmissions == 2
MaxIterBound == 2

\* ------------------------------------------------------------- constants
SliderMin == 1
SliderMax == 10

Questions == {"q1", "q2"}
FinalAnswers == {"a1", "a2"}

Greeting == "Hi, I'm a search assistant that can look up information from the web, Wikipedia, and academic papers. What would you like to know?"
fallback_response == "I encountered an issue while searching for information. This might be due to tool errors or complexity in the question. Could you try rephrasing your question or selecting different search tools?"
KeyMissingText == "Please enter your Groq API key in the sidebar."
NoToolText == "Please select at least one search tool in the sidebar."
AgentIssuePrefix == "The agent encountered an issue: "
OuterErrorPrefix == "An error occurred: "
CheckKeyText == "Please check your API key and try again."
PromptPreamble == "You are a helpful search assistant with access to several information sources. ... User Question: "
BudgetText == "The answer could not be determined within the iteration budget."

ToolError == "tool invocation failed"
ModelError == "text generation failed"
ParseError == "could not parse model output"
SetupError == "model client or agent setup failed"
ExceptionMessages == {ToolError, ModelError, ParseError, SetupError}

ApiKeys == {"", "gsk_key"}
IterationChoices == {n \in SliderMin..SliderMax : n <= MaxIterBound}

VARIABLES
  api_key,          \* sidebar text input
  use_web_search,   \* sidebar checkboxes
  use_arxiv,
  use_wikipedia,
  max_iterations,   \* sidebar slider
  session_state,    \* st.session_state: a record with field messages
  page,             \* the elements drawn by the current script run
  pc,               \* "idle": script finished; "run": inside search_agent.run
  prompt,           \* the question of the current submission
  search_agent,     \* the agent built by initialize_agent
  run_input,        \* the text handed to search_agent.run
  iterations,       \* the loop's iteration counter
  toolCalls,        \* tool invocations of the current run
  llmCalls,         \* model round-trips of the current run
  outputs,          \* the model outputs of the current run, in order
  corrective,       \* the corrective instruction is in the next prompt
  response,         \* what search_agent.run returned
  raised,           \* the message of the exception caught, "" if none
  outcome,          \* how the last submission ended
  startLen,         \* length of the transcript when the submission began
  submissions,      \* number of submissions so far
  handed            \* every (question, input, prior length) handed to the loop

vars == <<api_key, use_web_search, use_arxiv, use_wikipedia, max_iterations,
          session_state, page, pc, prompt, search_agent, run_input,
          iterations, toolCalls, llmCalls, outputs, corrective, response,
          raised, outcome, startLen, submissions, handed>>

widgets == <<api_key, use_web_search, use_arxiv, use_wikipedia, max_iterations>>
loopVars == <<iterations, toolCalls, llmCalls, outputs, corrective>>

\* ------------------------------------------------------------ data model
Msg(role, content) == [role |-> role, content |-> content]

ChatEl(role, content) == [kind |-> "chat", role |-> role, text |-> <<content>>]
ErrorEl(parts) == [kind |-> "error", role |-> "", text |-> parts]
CaptionEl == [kind |-> "caption", role |-> "", text |-> <<"Search completed">>]

NoAgent == [tools |-> <<>>, handle_parsing_errors |-> FALSE, max_iterations |-> 0,
            early_stopping_method |-> "none"]

\* lines 56-88: the tool list, in the order the checkboxes are tested
BuildTools(web, arx, wiki) ==
  (IF web THEN <<"Web_Search">> ELSE <<>>) \o
  (IF arx THEN <<"Arxiv_Search">> ELSE <<>>) \o
  (IF wiki THEN <<"Wikipedia_Search">> ELSE <<>>)

tools == BuildTools(use_web_search, use_arxiv, use_wikipedia)

\* lines 90-94: seed the transcript only when the session has none
InitHistoryAlways(ss) == [messages |-> <<Msg("assistant", Greeting)>>]

InitHistory(ss) ==
  IF "messages" \notin DOMAIN ss
    THEN [messages |-> <<Msg("assistant", Greeting)>>]
    ELSE ss

\* lines 96-98: draw every message of the transcript, in order
Render(msgs) == [i \in 1..Len(msgs) |-> ChatEl(msgs[i].role, msgs[i].content)]

\* lines 143-152: the f-string built from the question alone
enhanced_prompt(q) == <<PromptPreamble, q>>

\* line 157: the argument of search_agent.run
RunInputWithHistory(q, msgs) == <<enhanced_prompt(q), msgs>>

RunInput(q, msgs) == enhanced_prompt(q)

\* lines 125-133: the agent and the policies it is built with
InitializeAgentStrict(tls, n) ==
  [tools |-> tls, handle_parsing_errors |-> FALSE, max_iterations |-> n,
   early_stopping_method |-> "generate"]

InitializeAgentOffByOne(tls, n) ==
  [tools |-> tls, handle_parsing_errors |-> TRUE, max_iterations |-> n + 1,
   early_stopping_method |-> "generate"]

InitializeAgent(tls, n) ==
  [tools |-> tls, handle_parsing_errors |-> TRUE, max_iterations |-> n,
   early_stopping_method |-> "generate"]

Init ==
  /\ api_key \in ApiKeys
  /\ use_web_search = TRUE
  /\ use_arxiv = TRUE
  /\ use_wikipedia = TRUE
  /\ max_iterations \in IterationChoices
  /\ session_state = InitHistory(<<>>)
  /\ page = Render(session_state.messages)
  /\ pc = "idle"
  /\ prompt = ""
  /\ search_agent = NoAgent
  /\ run_input = <<>>
  /\ iterations = 0
  /\ toolCalls = 0
  /\ llmCalls = 0
  /\ outputs = <<>>
  /\ corrective = FALSE
  /\ response = ""
  /\ raised = ""
  /\ outcome = "none"
  /\ startLen = Len(session_state.messages)
  /\ submissions = 0
  /\ handed = {}

\* lines 106-111: the configuration check; "" when the configuration is valid
ValidateKeyOnly(key, tls) == IF key = "" THEN KeyMissingText ELSE ""

Validate(key, tls) ==
  IF key = "" THEN KeyMissingText
  ELSE IF tls = <<>> THEN NoToolText
  ELSE ""

\* lines 90-104: the start of a script run that received the question q
Transcript == session_state.messages

UserNotRecorded(q) == InitHistory(session_state).messages

UserRecorded(q) == Append(InitHistory(session_state).messages, Msg("user", q))

UserDrawn(q) == Append(Render(InitHistory(session_state).messages), ChatEl("user", q))

BeginSubmission(q) ==
  /\ pc = "idle"
  /\ submissions < MaxSubmissions
  /\ submissions' = submissions + 1
  /\ prompt' = q
  /\ startLen' = Len(InitHistory(session_state).messages)
  /\ iterations' = 0
  /\ toolCalls' = 0
  /\ llmCalls' = 0
  /\ outputs' = <<>>
  /\ corrective' = FALSE
  /\ response' = ""
  /\ UNCHANGED widgets

\* A script run without a question (lines 29-98): an interaction with one
\* sidebar widget reruns the script with that widget's new value
OneWidgetChanged(key, web, arx, wiki, n) ==
  Cardinality({i \in 1..5 :
    <<key, web, arx, wiki, n>>[i] # <<api_key, use_web_search, use_arxiv,
                                      use_wikipedia, max_iterations>>[i]}) <= 1

Rerun(key, web, arx, wiki, n) ==
  /\ pc = "idle"
  /\ OneWidgetChanged(key, web, arx, wiki, n)
  /\ api_key' = key
  /\ use_web_search' = web
  /\ use_arxiv' = arx
  /\ use_wikipedia' = wiki
  /\ max_iterations' = n
  /\ session_state' = InitHistory(session_state)
  /\ page' = Render(session_state'.messages)
  /\ outcome' = "none"
  /\ raised' = ""
  /\ prompt' = ""
  /\ search_agent' = NoAgent
  /\ run_input' = <<>>
  /\ iterations' = 0
  /\ toolCalls' = 0
  /\ llmCalls' = 0
  /\ outputs' = <<>>
  /\ corrective' = FALSE
  /\ response' = ""
  /\ startLen' = Len(session_state'.messages)
  /\ UNCHANGED <<pc, submissions, handed>>

\* lines 101-111: the question is recorded, the configuration is rejected
SubmitBlocked(q) ==
  /\ BeginSubmission(q)
  /\ Validate(api_key, tools) # ""
  /\ session_state' = [messages |-> UserRecorded(q)]
  /\ page' = Append(UserDrawn(q), ErrorEl(<<Validate(api_key, tools)>>))
  /\ outcome' = "config_error"
  /\ raised' = ""
  /\ search_agent' = NoAgent
  /\ run_input' = <<>>
  /\ UNCHANGED <<pc, handed>>

\* lines 112-133 and 174-176: ChatGroq or initialize_agent raises
SubmitSetupFails(q) ==
  /\ BeginSubmission(q)
  /\ Validate(api_key, tools) = ""
  /\ session_state' = [messages |-> UserRecorded(q)]
  /\ page' = UserDrawn(q) \o <<ErrorEl(<<OuterErrorPrefix, SetupError>>),
                               ErrorEl(<<CheckKeyText>>)>>
  /\ outcome' = "setup_error"
  /\ raised' = SetupError
  /\ search_agent' = NoAgent
  /\ run_input' = <<>>
  /\ UNCHANGED <<pc, handed>>

\* lines 112-157: the agent is built and search_agent.run is entered
SubmitStart(q) ==
  /\ BeginSubmission(q)
  /\ Validate(api_key, tools) = ""
  /\ session_state' = [messages |-> UserRecorded(q)]
  /\ page' = UserDrawn(q)
  /\ search_agent' = InitializeAgent(tools, max_iterations)
  /\ run_input' = RunInput(q, UserRecorded(q))
  /\ handed' = handed \cup {[question |-> q, input |-> run_input',
                            prior |-> startLen']}
  /\ pc' = "run"
  /\ outcome' = "running"
  /\ raised' = ""

\* lines 158-165: search_agent.run returned resp
AgentReturnsFallback(resp) ==
  /\ session_state' = [messages |-> Append(Transcript, Msg("assistant", fallback_response))]
  /\ page' = page \o <<ChatEl("assistant", resp), CaptionEl>>
  /\ response' = resp
  /\ outcome' = "answered"
  /\ raised' = ""
  /\ pc' = "idle"

AgentReturns(resp) ==
  /\ session_state' = [messages |-> Append(Transcript, Msg("assistant", resp))]
  /\ page' = page \o <<ChatEl("assistant", resp), CaptionEl>>
  /\ response' = resp
  /\ outcome' = "answered"
  /\ raised' = ""
  /\ pc' = "idle"

\* lines 167-172: search_agent.run raised an exception with message e
AgentRaisesSilently(e) ==
  /\ session_state' = [messages |-> Append(Transcript, Msg("assistant", fallback_response))]
  /\ page' = page \o <<ChatEl("assistant", fallback_response)>>
  /\ response' = ""
  /\ outcome' = "fallback"
  /\ raised' = e
  /\ pc' = "idle"

AgentRaisesUnrecorded(e) ==
  /\ session_state' = session_state
  /\ page' = page \o <<ErrorEl(<<AgentIssuePrefix, e>>),
                       ChatEl("assistant", fallback_response)>>
  /\ response' = ""
  /\ outcome' = "fallback"
  /\ raised' = e
  /\ pc' = "idle"

AgentRaises(e) ==
  /\ session_state' = [messages |-> Append(Transcript, Msg("assistant", fallback_response))]
  /\ page' = page \o <<ErrorEl(<<AgentIssuePrefix, e>>),
                       ChatEl("assistant", fallback_response)>>
  /\ response' = ""
  /\ outcome' = "fallback"
  /\ raised' = e
  /\ pc' = "idle"

\* ------------------------------------------- the reasoning loop (4.1)
InLoop == pc = "run"

\* step 6: the iteration budget
ShouldContinue == iterations < search_agent.max_iterations

ToolNames == {search_agent.tools[i] : i \in 1..Len(search_agent.tools)}

LoopFrame == UNCHANGED <<widgets, prompt, search_agent, run_input, startLen,
                         submissions, handed>>

\* steps 2 and 4: the model chooses tool t, the tool returns an observation
PlanTool(t) ==
  /\ InLoop /\ ShouldContinue
  /\ t \in ToolNames
  /\ llmCalls' = llmCalls + 1
  /\ outputs' = Append(outputs, "tool")
  /\ toolCalls' = toolCalls + 1
  /\ iterations' = iterations + 1
  /\ UNCHANGED <<corrective, session_state, page, pc, response, outcome, raised>>
  /\ LoopFrame

\* step 4 and failure semantics: the chosen tool raises, the loop aborts
ToolRaises(t) ==
  /\ InLoop /\ ShouldContinue
  /\ t \in ToolNames
  /\ llmCalls' = llmCalls + 1
  /\ outputs' = Append(outputs, "tool")
  /\ toolCalls' = toolCalls + 1
  /\ UNCHANGED <<iterations, corrective>>
  /\ AgentRaises(ToolError)
  /\ LoopFrame

\* steps 2 and 5: the model produces the final answer a
PlanFinal(a) ==
  /\ InLoop /\ ShouldContinue
  /\ llmCalls' = llmCalls + 1
  /\ outputs' = Append(outputs, a)
  /\ UNCHANGED <<iterations, toolCalls, corrective>>
  /\ AgentReturns(a)
  /\ LoopFrame

\* step 3: the output cannot be parsed
PlanUnparsable ==
  /\ InLoop /\ ShouldContinue
  /\ llmCalls' = llmCalls + 1
  /\ outputs' = Append(outputs, "bad")
  /\ UNCHANGED toolCalls
  /\ IF search_agent.handle_parsing_errors
       THEN /\ corrective' = TRUE
            /\ iterations' = iterations + 1
            /\ UNCHANGED <<session_state, page, pc, response, outcome, raised>>
       ELSE /\ UNCHANGED <<iterations, corrective>>
            /\ AgentRaises(ParseError)
  /\ LoopFrame

\* failure semantics: the text-generation capability raises
ModelRaises ==
  /\ InLoop
  /\ llmCalls' = llmCalls + 1
  /\ outputs' = Append(outputs, "raise")
  /\ UNCHANGED <<iterations, toolCalls, corrective>>
  /\ AgentRaises(ModelError)
  /\ LoopFrame

\* step 6: the budget is used up; one last request with tool use disabled
EarlyStop(out) ==
  /\ InLoop /\ ~ShouldContinue
  /\ out \in FinalAnswers \cup {"tool", "bad"}
  /\ UNCHANGED <<iterations, toolCalls, corrective>>
  /\ IF search_agent.early_stopping_method = "generate"
       THEN /\ llmCalls' = llmCalls + 1
            /\ outputs' = Append(outputs, out)
            /\ AgentReturns(IF out \in FinalAnswers THEN out ELSE BudgetText)
       ELSE /\ UNCHANGED <<llmCalls, outputs>>
            /\ AgentReturns(BudgetText)
  /\ LoopFrame

Next ==
  \/ \E key \in ApiKeys, web \in BOOLEAN, arx \in BOOLEAN, wiki \in BOOLEAN,
        n \in IterationChoices : Rerun(key, web, arx, wiki, n)
  \/ \E q \in Questions : SubmitBlocked(q)
  \/ \E q \in Questions : SubmitSetupFails(q)
  \/ \E q \in Questions : SubmitStart(q)
  \/ \E t \in ToolNames : PlanTool(t)
  \/ \E t \in ToolNames : ToolRaises(t)
  \/ \E a \in FinalAnswers : PlanFinal(a)
  \/ PlanUnparsable
  \/ ModelRaises
  \/ \E out \in FinalAnswers \cup {"tool", "bad"} : EarlyStop(out)

Spec == Init /\ [][Next]_vars

LoopStep ==
  \/ \E t \in ToolNames : PlanTool(t)
  \/ \E t \in ToolNames : ToolRaises(t)
  \/ \E a \in FinalAnswers : PlanFinal(a)
  \/ PlanUnparsable
  \/ ModelRaises
  \/ \E out \in FinalAnswers \cup {"tool", "bad"} : EarlyStop(out)

\* search_agent.run is synchronous: once entered, the loop keeps stepping
FairSpec == Spec /\ WF_vars(LoopStep)

TypeOK ==
  /\ api_key \in ApiKeys
  /\ max_iterations \in IterationChoices
  /\ pc \in {"idle", "run"}
  /\ outcome \in {"none", "config_error", "setup_error", "running", "answered", "fallback"}
  /\ submissions \in 0..MaxSubmissions

\* ------------------------------------------------------------- properties
Last(s) == s[Len(s)]

IsPrefix(a, b) == Len(a) <= Len(b) /\ \A i \in 1..Len(a) : a[i] = b[i]

Shows(el, txt) == \E i \in 1..Len(el.text) : el.text[i] = txt

Submitted == outcome # "none"

AllTool(outs) == \A i \in 1..Len(outs) : outs[i] = "tool"

\* C1: a submission with an empty credential or an empty tool list ends with
\* the configuration error on the page, and for that submission no agent is
\* built, nothing is handed to the loop, and no model or tool call is made.
C1_ConfigErrorBlocksEngine ==
  (Submitted /\ (api_key = "" \/ tools = <<>>)) =>
    /\ outcome = "config_error"
    /\ pc = "idle"
    /\ Last(page) = ErrorEl(<<IF api_key = "" THEN KeyMissingText ELSE NoToolText>>)
    /\ search_agent = NoAgent
    /\ run_input = <<>>
    /\ llmCalls = 0 /\ toolCalls = 0 /\ outputs = <<>>
    /\ \A h \in handed : h.prior # startLen

C1_Witness ==
  /\ outcome = "config_error"
  /\ api_key # ""
  /\ tools = <<>>
  /\ submissions = 2

\* C2: whatever the outcome of a submission, the first entry appended for it
\* is the user's question, and every assistant message of the submission
\* comes after it.
C2_QuestionAlwaysRecordedFirst ==
  Submitted =>
    /\ Len(Transcript) > startLen
    /\ Transcript[startLen + 1] = Msg("user", prompt)
    /\ \A i \in (startLen + 2)..Len(Transcript) : Transcript[i].role = "assistant"

C2_Witness ==
  /\ outcome = "setup_error"
  /\ Last(Transcript) = Msg("user", prompt)

\* C3: when a tool raises during a run, the loop is left and the transcript
\* ends with the user's question followed by the literal fallback text as an
\* assistant message.
C3_ToolFailureGivesFallback ==
  (raised = ToolError) =>
    /\ pc = "idle"
    /\ outcome = "fallback"
    /\ Len(Transcript) = startLen + 2
    /\ Transcript[Len(Transcript)] = Msg("assistant", fallback_response)
    /\ Transcript[Len(Transcript) - 1] = Msg("user", prompt)

C3_Witness ==
  /\ raised = ToolError
  /\ toolCalls = 2
  /\ Last(Transcript).content = fallback_response

\* C4 as stated: every validated submission, a failure of the setup of the
\* model client or agent included, ends with an assistant message in the
\* transcript (the fallback when something was raised).
C4_Original ==
  (pc = "idle" /\ outcome \in {"setup_error", "answered", "fallback"}) =>
    /\ Last(Transcript).role = "assistant"
    /\ (raised # "" => Last(Transcript).content = fallback_response)

\* C4 amended: an exception raised by search_agent.run ends the submission
\* with the fallback recorded as an assistant message, so every submission
\* whose agent was built ends with an assistant message; a failure of the
\* setup shows two error messages and appends no assistant message.
C4_Amended ==
  /\ (pc = "idle" /\ search_agent # NoAgent) =>
       /\ Len(Transcript) = startLen + 2
       /\ Last(Transcript).role = "assistant"
       /\ (raised # "" <=> outcome = "fallback")
       /\ (raised # "" => Last(Transcript) = Msg("assistant", fallback_response))
  /\ (outcome = "setup_error") =>
       /\ search_agent = NoAgent
       /\ Len(Transcript) = startLen + 1
       /\ Last(Transcript) = Msg("user", prompt)
       /\ page[Len(page) - 1] = ErrorEl(<<OuterErrorPrefix, raised>>)
       /\ Last(page) = ErrorEl(<<CheckKeyText>>)

C4_Witness ==
  /\ outcome = "fallback"
  /\ raised = ModelError
  /\ Last(Transcript) = Msg("assistant", fallback_response)

C6_GreetingFirstAppendOnly ==
  /\ [](/\ Len(Transcript) >= 1
        /\ Transcript[1] = Msg("assistant", Greeting)
        /\ Len(page) >= startLen
        /\ SubSeq(page, 1, startLen) = Render(SubSeq(Transcript, 1, startLen))
        /\ (outcome = "none" => page = Render(Transcript)))
  /\ [][IsPrefix(Transcript, Transcript')]_vars

C6_Witness ==
  /\ outcome = "none"
  /\ Len(Transcript) = 5
  /\ page = Render(Transcript)
  /\ Transcript[2].role = "user" /\ Transcript[3].role = "assistant"

\* C7: a run makes at most max_iterations tool invocations and at most
\* max_iterations + 1 model requests; a run in which every model output
\* asks for a tool and which returns made exactly max_iterations tool
\* invocations, then one last request that invoked no tool; and every run
\* leaves the loop.
C7_BoundedToolUse ==
  /\ [](/\ toolCalls <= max_iterations
        /\ llmCalls <= max_iterations + 1
        /\ (InLoop => iterations <= max_iterations /\ toolCalls <= iterations)
        /\ (pc = "idle" /\ outcome = "answered" /\ AllTool(outputs)) =>
             /\ toolCalls = max_iterations
             /\ llmCalls = max_iterations + 1
             /\ response = BudgetText)
  /\ (InLoop ~> pc = "idle")

C7_Witness ==
  /\ pc = "idle" /\ outcome = "answered"
  /\ AllTool(outputs)
  /\ max_iterations >= 2
  /\ toolCalls = max_iterations
  /\ llmCalls = max_iterations + 1

\* C8: an unparsable first output does not abort the run: the corrective
\* instruction is injected and the loop goes on; when the second output is a
\* final answer, that answer is returned after exactly two model requests
\* and no tool invocation, one request more than a run whose first output is
\* that final answer.
C8_ParseErrorRecovered ==
  /\ (outputs = <<"bad">>) =>
       (InLoop /\ corrective /\ llmCalls = 1 /\ toolCalls = 0 /\ raised = "")
  /\ \A a \in FinalAnswers :
       /\ (outputs = <<"bad", a>>) =>
            /\ pc = "idle" /\ outcome = "answered"
            /\ corrective
            /\ response = a
            /\ Last(Transcript) = Msg("assistant", a)
            /\ llmCalls = 2 /\ toolCalls = 0
       /\ (outputs = <<a>>) =>
            /\ pc = "idle" /\ outcome = "answered"
            /\ ~corrective
            /\ response = a
            /\ llmCalls = 1 /\ toolCalls = 0

C8_Witness ==
  /\ outputs = <<"bad", "a2">>
  /\ response = "a2"
  /\ llmCalls = 2

\* C9: what is handed to the loop is determined by the question alone: the
\* same question submitted after different transcripts, under whatever
\* configuration, is handed over as the same input.
C9_InputIgnoresTranscript ==
  /\ \A h1, h2 \in handed : (h1.question = h2.question) => (h1.input = h2.input)
  /\ InLoop => run_input = enhanced_prompt(prompt)

C9_Witness ==
  \E h1, h2 \in handed :
    /\ h1.question = h2.question
    /\ h1.prior # h2.prior
    /\ h1.input = h2.input

\* C10: a submission appends the user's question and at most one assistant
\* message; a run that returns appends exactly what the loop returned; a
\* blocked submission appends no assistant message; and while the loop runs
\* nothing is appended, however many steps it takes.
C10_OneUserAtMostOneAssistant ==
  /\ Submitted =>
       /\ Len(Transcript) - startLen \in {1, 2}
       /\ Transcript[startLen + 1] = Msg("user", prompt)
       /\ (Len(Transcript) = startLen + 2 => Transcript[startLen + 2].role = "assistant")
  /\ (outcome = "answered") =>
       /\ Len(Transcript) = startLen + 2
       /\ response = (IF Last(outputs) \in FinalAnswers THEN Last(outputs) ELSE BudgetText)
       /\ Transcript[startLen + 2] = Msg("assistant", response)
  /\ (outcome = "config_error") => Len(Transcript) = startLen + 1
  /\ InLoop => Len(Transcript) = startLen + 1

C10_Witness ==
  /\ outcome = "config_error"
  /\ Transcript[startLen].role = "user"
  /\ Transcript[startLen + 1].role = "user"
====
